---- MODULE Spec2Model ----
(***************************************************************************)
(* A model of the chat relay of src/src/main.rs: the per-connection        *)
(* handle_socket task (history replay, assignment, inbound loop), the      *)
(* spawned send_task (outbound loop), check_spam, the upload handler and   *)
(* the tokio broadcast channel they share.                                  *)
(*                                                                         *)
(* Time is counted in milliseconds.  A serialized frame (a String in the   *)
(* source) is a tuple whose first element is serde's "type" tag and whose   *)
(* other elements are the variant's fields in declaration order.  The       *)
(* display color is left out: no step of the program reads it back.         *)
(***************************************************************************)
EXTENDS Integers, Sequences, FiniteSets, TLC

\* ------------------------------------------------------------------ bounds
MaxPayloads == 4
GuardPayloads == 8
ClosePayloads == 2
ReplayPayloads == 3
UploadPayloads == 2
NoticePayloads == 6
LockPayloads == 3
IdPayloads == 6
RacePayloads == 2
MaxTicks == 2
MaxUploads == 1
\* The capacity of the broadcast channel, scaled down from the 256 of
\* main.rs:74 so that a receiver can fall behind within the bounds.
BusCapacity == 2

Sessions == {"s1", "s2"}

\* --------------------------------------------------------- program constants
MESSAGE_COUNT_LIMIT == 5
MAX_WARNINGS == 1
OneSecond == 1000
BAN_DURATION == 300 * OneSecond

\* ------------------------------------------------------------------ frames
AssignFrame(id) == [type |-> "assign", id |-> id]
MsgFrame(from, text) == [type |-> "msg", from |-> from, text |-> text, to |-> "null"]
WhisperFrame(from, to, text) == [type |-> "whisper", from |-> from, to |-> to, text |-> text]
UploadFrame(url, filename) ==
    [type |-> "upload", from |-> "system", url |-> url, filename |-> filename, to |-> "null"]
SystemFrame(text) == [type |-> "system", text |-> text]
HelpFrame == [type |-> "help", commands |-> "commands"]
WarnFrame(text) == [type |-> "warn", text |-> text]

\* serde_json::to_string of a WsFrame (internally tagged, lowercase tag)
ToJson(frame) ==
    CASE frame.type = "assign" -> <<"assign", frame.id>>
      [] frame.type = "msg" -> <<"msg", frame.from, frame.text, frame.to>>
      [] frame.type = "whisper" -> <<"whisper", frame.from, frame.to, frame.text>>
      [] frame.type = "upload" -> <<"upload", frame.from, frame.url, frame.filename, frame.to>>
      [] frame.type = "system" -> <<"system", frame.text>>
      [] frame.type = "help" -> <<"help", frame.commands>>
      [] frame.type = "warn" -> <<"warn", frame.text>>

\* serde_json::from_str::<WsFrame>: Ok(frame) for a known tag, Err otherwise
FromJson(json) ==
    CASE json[1] = "assign" /\ Len(json) = 2 -> [ok |-> TRUE, frame |-> AssignFrame(json[2])]
      [] json[1] = "msg" /\ Len(json) = 4 -> [ok |-> TRUE, frame |-> MsgFrame(json[2], json[3])]
      [] json[1] = "whisper" /\ Len(json) = 4 ->
            [ok |-> TRUE, frame |-> WhisperFrame(json[2], json[3], json[4])]
      [] json[1] = "upload" /\ Len(json) = 5 ->
            [ok |-> TRUE, frame |-> UploadFrame(json[3], json[4])]
      [] json[1] = "system" /\ Len(json) = 2 -> [ok |-> TRUE, frame |-> SystemFrame(json[2])]
      [] json[1] = "help" /\ Len(json) = 2 -> [ok |-> TRUE, frame |-> HelpFrame]
      [] json[1] = "warn" /\ Len(json) = 2 -> [ok |-> TRUE, frame |-> WarnFrame(json[2])]
      [] OTHER -> [ok |-> FALSE, frame |-> SystemFrame("")]

\* ------------------------------------------------------------- check_spam
\* The record or_insert puts in the map for an identifier seen first at t.
FreshActivity(t) ==
    [message_count |-> 0, last_message_time |-> t, warnings |-> 0,
     is_banned |-> FALSE, ban_until |-> {}]

\* check_spam on the (looked up or inserted) record at time t: the record it
\* leaves in the map and the Result it returns (Option is a set of 0 or 1).
WarningLimitReached(warnings) == warnings >= MAX_WARNINGS

\* check_spam with a ban that every text sent during it restarts.
CheckSpam_BanRestarts(activity, t) ==
    LET stillBanned == activity.is_banned /\ \E bu \in activity.ban_until : t < bu
        expired == activity.is_banned /\ \E bu \in activity.ban_until : ~(t < bu)
        a1 == IF expired
              THEN [activity EXCEPT !.is_banned = FALSE, !.ban_until = {},
                                    !.message_count = 0, !.warnings = 0]
              ELSE activity
        a2 == [a1 EXCEPT !.message_count =
                             IF t - a1.last_message_time < OneSecond THEN @ + 1 ELSE 1,
                         !.last_message_time = t]
        a3 == [a2 EXCEPT !.warnings = @ + 1]
    IN  IF stillBanned
        THEN [activity |-> [activity EXCEPT !.ban_until = {t + BAN_DURATION}], ok |-> FALSE,
              err |-> <<"ban_remaining", BAN_DURATION \div OneSecond>>]
        ELSE IF a2.message_count > MESSAGE_COUNT_LIMIT
        THEN IF WarningLimitReached(a3.warnings)
             THEN [activity |-> [a3 EXCEPT !.is_banned = TRUE,
                                           !.ban_until = {t + BAN_DURATION}],
                   ok |-> FALSE, err |-> <<"banned_5min">>]
             ELSE [activity |-> a3, ok |-> FALSE,
                   err |-> <<"too_fast", a3.warnings, MAX_WARNINGS>>]
        ELSE [activity |-> a2, ok |-> TRUE, err |-> <<>>]

\* check_spam with a count that a pause of a second or more does not reset.
CheckSpam_NeverResets(activity, t) ==
    LET stillBanned == activity.is_banned /\ \E bu \in activity.ban_until : t < bu
        expired == activity.is_banned /\ \E bu \in activity.ban_until : ~(t < bu)
        a1 == IF expired
              THEN [activity EXCEPT !.is_banned = FALSE, !.ban_until = {},
                                    !.message_count = 0, !.warnings = 0]
              ELSE activity
        a2 == [a1 EXCEPT !.message_count =
                             @ + 1,
                         !.last_message_time = t]
        a3 == [a2 EXCEPT !.warnings = @ + 1]
    IN  IF stillBanned
        THEN LET bu == CHOOSE b \in activity.ban_until : TRUE
             IN  [activity |-> activity, ok |-> FALSE,
                  err |-> <<"ban_remaining", (bu - t) \div OneSecond>>]
        ELSE IF a2.message_count > MESSAGE_COUNT_LIMIT
        THEN IF WarningLimitReached(a3.warnings)
             THEN [activity |-> [a3 EXCEPT !.is_banned = TRUE,
                                           !.ban_until = {t + BAN_DURATION}],
                   ok |-> FALSE, err |-> <<"banned_5min">>]
             ELSE [activity |-> a3, ok |-> FALSE,
                   err |-> <<"too_fast", a3.warnings, MAX_WARNINGS>>]
        ELSE [activity |-> a2, ok |-> TRUE, err |-> <<>>]

CheckSpam(activity, t) ==
    LET stillBanned == activity.is_banned /\ \E bu \in activity.ban_until : t < bu
        expired == activity.is_banned /\ \E bu \in activity.ban_until : ~(t < bu)
        a1 == IF expired
              THEN [activity EXCEPT !.is_banned = FALSE, !.ban_until = {},
                                    !.message_count = 0, !.warnings = 0]
              ELSE activity
        a2 == [a1 EXCEPT !.message_count =
                             IF t - a1.last_message_time < OneSecond THEN @ + 1 ELSE 1,
                         !.last_message_time = t]
        a3 == [a2 EXCEPT !.warnings = @ + 1]
    IN  IF stillBanned
        THEN LET bu == CHOOSE b \in activity.ban_until : TRUE
             IN  [activity |-> activity, ok |-> FALSE,
                  err |-> <<"ban_remaining", (bu - t) \div OneSecond>>]
        ELSE IF a2.message_count > MESSAGE_COUNT_LIMIT
        THEN IF WarningLimitReached(a3.warnings)
             THEN [activity |-> [a3 EXCEPT !.is_banned = TRUE,
                                           !.ban_until = {t + BAN_DURATION}],
                   ok |-> FALSE, err |-> <<"banned_5min">>]
             ELSE [activity |-> a3, ok |-> FALSE,
                   err |-> <<"too_fast", a3.warnings, MAX_WARNINGS>>]
        ELSE [activity |-> a2, ok |-> TRUE, err |-> <<>>]

\* --------------------------------------------------------- command grammar
\* An inbound text is a tuple of its space-separated tokens: <<"/block", "u1">>
\* is "/block u1", <<"/block", "">> is "/block " with an empty target and
\* <<"/block">> is the bare word, which starts with no "/block " prefix.
HasPrefix(text, cmd) == Len(text) >= 2 /\ text[1] = cmd

\* Dispatch with a whisper that is stored like a public chat frame.
Dispatch_WhisperStored(id, text) ==
    IF Len(text) = 1 /\ text[1] = "/help"
    THEN [op |-> "ack", arg |-> ToJson(HelpFrame)]
    ELSE IF HasPrefix(text, "/block")
    THEN IF text[2] # "" THEN [op |-> "block", arg |-> <<text[2]>>]
                         ELSE [op |-> "none", arg |-> <<>>]
    ELSE IF HasPrefix(text, "/unblock")
    THEN IF text[2] # "" THEN [op |-> "unblock", arg |-> <<text[2]>>]
                         ELSE [op |-> "none", arg |-> <<>>]
    ELSE IF HasPrefix(text, "/w")
    THEN IF Len(text) >= 3 /\ text[2] # "" /\ text[3] # ""
         THEN [op |-> "append", arg |-> ToJson(WhisperFrame(id, text[2], text[3]))]
         ELSE [op |-> "none", arg |-> <<>>]
    ELSE IF HasPrefix(text, "/upload")
    THEN [op |-> "ack", arg |-> ToJson(SystemFrame(<<"use_upload_button", text[2]>>))]
    ELSE [op |-> "append", arg |-> ToJson(MsgFrame(id, text[1]))]

\* The branch of the inbound loop a text accepted by check_spam takes.
Dispatch(id, text) ==
    IF Len(text) = 1 /\ text[1] = "/help"
    THEN [op |-> "ack", arg |-> ToJson(HelpFrame)]
    ELSE IF HasPrefix(text, "/block")
    THEN IF text[2] # "" THEN [op |-> "block", arg |-> <<text[2]>>]
                         ELSE [op |-> "none", arg |-> <<>>]
    ELSE IF HasPrefix(text, "/unblock")
    THEN IF text[2] # "" THEN [op |-> "unblock", arg |-> <<text[2]>>]
                         ELSE [op |-> "none", arg |-> <<>>]
    ELSE IF HasPrefix(text, "/w")
    THEN IF Len(text) >= 3 /\ text[2] # "" /\ text[3] # ""
         THEN [op |-> "publish", arg |-> ToJson(WhisperFrame(id, text[2], text[3]))]
         ELSE [op |-> "none", arg |-> <<>>]
    ELSE IF HasPrefix(text, "/upload")
    THEN [op |-> "ack", arg |-> ToJson(SystemFrame(<<"use_upload_button", text[2]>>))]
    ELSE [op |-> "append", arg |-> ToJson(MsgFrame(id, text[1]))]

\* ------------------------------------------------------------------- state
VARIABLES
    now,            \* Instant::now(), in ms
    activities,     \* state.user_activities: identifier -> UserActivity
    history,        \* state.history: Vec<String>
    histLock,       \* holder of the history mutex: "free" or a session
    bus,            \* every String sent on state.tx, oldest first
    phase,          \* handle_socket's position per connection
    sid,            \* the id gen_id gave the connection
    ridx,           \* index of the next history entry to replay
    conn,           \* the client's socket: "open" or "closed"
    out,            \* what was written to the client's socket, in order
    ipc,            \* inbound loop: position inside the Message::Text arm
    ireq,           \* inbound loop: the frame or target in hand
    opc,            \* send_task: position
    ocur,           \* send_task: msg in hand and its place on the bus
    cursor,         \* rx: number of bus messages it is past
    block_list,     \* the connection's HashSet of blocked senders
    blockLock,      \* holder of the block_list mutex: "free", "in"
    connLock,       \* holder of the sender mutex: "free", "in", "out"
    aborted,        \* send_task.abort() was called
    unblocked,      \* senders whose last /block or /unblock was an /unblock
    dropped,        \* bus places of the frames the send_task discarded
    rstart,         \* length of the history when the replay took the mutex
    accepted,       \* check_spam's verdict on the text in hand
    nText,          \* text payloads read per connection
    sentAt,         \* the times at which they were read, oldest first
    nTicks,         \* clock advances so far
    nUploads        \* uploads so far

vars == <<now, activities, history, histLock, bus, phase, sid, ridx, conn, out,
          ipc, ireq, opc, ocur, cursor, block_list, blockLock, connLock, aborted,
          unblocked, dropped, rstart, accepted, nText, sentAt, nTicks, nUploads>>

sessionVars == <<phase, sid, ridx, conn, out, ipc, ireq, opc, ocur, cursor,
                 block_list, blockLock, connLock, aborted, unblocked, dropped, rstart,
                 accepted, nText, sentAt>>

RECURSIVE SumOver(_, _)
SumOver(f, S) ==
    IF S = {} THEN 0
    ELSE LET x == CHOOSE y \in S : TRUE IN f[x] + SumOver(f, S \ {x})

TotalText == SumOver(nText, Sessions)

Init ==
    /\ now = 0
    /\ activities = [u \in {} |-> FreshActivity(0)]
    /\ history = <<>>
    /\ histLock = "free"
    /\ bus = <<>>
    /\ phase = [s \in Sessions |-> "none"]
    /\ sid = [s \in Sessions |-> ""]
    /\ ridx = [s \in Sessions |-> 0]
    /\ conn = [s \in Sessions |-> "open"]
    /\ out = [s \in Sessions |-> <<>>]
    /\ ipc = [s \in Sessions |-> "idle"]
    /\ ireq = [s \in Sessions |-> <<>>]
    /\ opc = [s \in Sessions |-> "idle"]
    /\ ocur = [s \in Sessions |-> <<>>]
    /\ cursor = [s \in Sessions |-> 0]
    /\ block_list = [s \in Sessions |-> {}]
    /\ blockLock = [s \in Sessions |-> "free"]
    /\ connLock = [s \in Sessions |-> "free"]
    /\ aborted = [s \in Sessions |-> FALSE]
    /\ unblocked = [s \in Sessions |-> {}]
    /\ dropped = [s \in Sessions |-> {}]
    /\ rstart = [s \in Sessions |-> 0]
    /\ accepted = [s \in Sessions |-> TRUE]
    /\ nText = [s \in Sessions |-> 0]
    /\ sentAt = [s \in Sessions |-> <<>>]
    /\ nTicks = 0
    /\ nUploads = 0

\* sender.send(Message::Text(json)): the frame reaches the client if the
\* socket is open; an Err is what the caller sees otherwise.
Written(s, via, pos, json) ==
    IF conn[s] = "open"
    THEN Append(out[s], [via |-> via, pos |-> pos, json |-> json])
    ELSE out[s]

\* ------------------------------------------------- handle_socket: connecting
\* The upgrade runs handle_socket: gen_id draws the id, then the task waits
\* for the history mutex.
Connect(s, id) ==
    /\ phase[s] = "none"
    /\ phase' = [phase EXCEPT ![s] = "connecting"]
    /\ sid' = [sid EXCEPT ![s] = id]
    /\ UNCHANGED <<now, activities, history, histLock, bus, ridx, conn, out, ipc, ireq,
                   opc, ocur, cursor, block_list, blockLock, connLock, aborted,
                   unblocked, dropped, rstart, accepted, nText, sentAt, nTicks, nUploads>>

\* The replay with the subscription and the spawn of the send_task moved
\* ahead of it.
ReplayLock_SpawnsFirst(s) ==
    /\ phase[s] = "connecting"
    /\ histLock = "free"
    /\ rstart' = [rstart EXCEPT ![s] = Len(history)]
    /\ cursor' = [cursor EXCEPT ![s] = Len(bus)]
    /\ opc' = [opc EXCEPT ![s] = "recv"]
    /\ IF history = <<>>
       THEN /\ phase' = [phase EXCEPT ![s] = "assign"]
            /\ UNCHANGED <<histLock, ridx>>
       ELSE /\ phase' = [phase EXCEPT ![s] = "replay"]
            /\ histLock' = s
            /\ ridx' = [ridx EXCEPT ![s] = 1]
    /\ UNCHANGED <<now, activities, history, bus, sid, conn, out, ipc, ireq,
                   ocur, block_list, blockLock, connLock, aborted,
                   unblocked, dropped, accepted, nText, sentAt, nTicks, nUploads>>

\* state.history.lock().await returns; with nothing to iterate the guard is
\* dropped at once.
ReplayLock(s) ==
    /\ phase[s] = "connecting"
    /\ histLock = "free"
    /\ rstart' = [rstart EXCEPT ![s] = Len(history)]
    /\ IF history = <<>>
       THEN /\ phase' = [phase EXCEPT ![s] = "assign"]
            /\ UNCHANGED <<histLock, ridx>>
       ELSE /\ phase' = [phase EXCEPT ![s] = "replay"]
            /\ histLock' = s
            /\ ridx' = [ridx EXCEPT ![s] = 1]
    /\ UNCHANGED <<now, activities, history, bus, sid, conn, out, ipc, ireq,
                   opc, ocur, cursor, block_list, blockLock, connLock, aborted,
                   unblocked, dropped, accepted, nText, sentAt, nTicks, nUploads>>

\* One sender.send of the replay loop completes (its result is ignored); after
\* the last entry the guard goes out of scope.
ReplayStep(s) ==
    /\ phase[s] = "replay"
    /\ ridx[s] <= Len(history)
    /\ out' = [out EXCEPT ![s] = Written(s, "replay", ridx[s], history[ridx[s]])]
    /\ IF ridx[s] = Len(history)
       THEN /\ phase' = [phase EXCEPT ![s] = "assign"]
            /\ histLock' = "free"
            /\ UNCHANGED ridx
       ELSE /\ ridx' = [ridx EXCEPT ![s] = @ + 1]
            /\ UNCHANGED <<phase, histLock>>
    /\ UNCHANGED <<now, activities, history, bus, sid, conn, ipc, ireq,
                   opc, ocur, cursor, block_list, blockLock, connLock, aborted,
                   unblocked, dropped, rstart, accepted, nText, sentAt, nTicks, nUploads>>

\* The assign frame is sent, then state.tx.subscribe() and tokio::spawn: both
\* loops start.
SendAssign(s) ==
    /\ phase[s] = "assign"
    /\ out' = [out EXCEPT ![s] = Written(s, "direct", Len(bus), ToJson(AssignFrame(sid[s])))]
    /\ cursor' = [cursor EXCEPT ![s] = Len(bus)]
    /\ phase' = [phase EXCEPT ![s] = "active"]
    /\ ipc' = [ipc EXCEPT ![s] = "recv"]
    /\ opc' = [opc EXCEPT ![s] = "recv"]
    /\ UNCHANGED <<now, activities, history, histLock, bus, sid, ridx, conn, ireq,
                   ocur, block_list, blockLock, connLock, aborted,
                   unblocked, dropped, rstart, accepted, nText, sentAt, nTicks, nUploads>>

\* ------------------------------------------------ handle_socket: inbound loop
\* A lookup that ignores the key: whatever record the map holds is used.
Entry_AnyRecord(map, id, t) ==
    IF DOMAIN map # {} THEN map[CHOOSE u \in DOMAIN map : TRUE] ELSE FreshActivity(t)

\* activities.entry(user_id).or_insert(..): the record of id, a fresh one if
\* the map has none.
Entry(map, id, t) == IF id \in DOMAIN map THEN map[id] ELSE FreshActivity(t)

\* Gate without the continue of the Err arm: a rejected text is dispatched too.
Gate_NoContinue(r, d) ==
    [pc |-> IF d.op = "none" THEN "recv" ELSE d.op, req |-> d.arg]

\* Gate with a rejection notice that is published like a whisper.
Gate_PublishesNotice(r, d) ==
    IF ~r.ok
    THEN [pc |-> "publish", req |-> ToJson(WarnFrame(r.err))]
    ELSE [pc |-> IF d.op = "none" THEN "recv" ELSE d.op, req |-> d.arg]

\* What the loop does with check_spam's result r: on Err the warning is
\* sent and the loop continues, on Ok the text takes its branch d.
Gate(r, d) ==
    IF ~r.ok
    THEN [pc |-> "ack", req |-> ToJson(WarnFrame(r.err))]
    ELSE [pc |-> IF d.op = "none" THEN "recv" ELSE d.op, req |-> d.arg]

\* receiver.next() yields Message::Text(text): check_spam runs under the
\* user_activities write lock, then the text is dispatched.
InRecv(s, text) ==
    /\ phase[s] = "active"
    /\ ipc[s] = "recv"
    /\ conn[s] = "open"
    /\ LET id == sid[s]
           r == CheckSpam(Entry(activities, id, now), now)
           g == Gate(r, Dispatch(id, text))
       IN  /\ activities' = [u \in DOMAIN activities \cup {id} |->
                                IF u = id THEN r.activity ELSE activities[u]]
           /\ accepted' = [accepted EXCEPT ![s] = r.ok]
           /\ ipc' = [ipc EXCEPT ![s] = g.pc]
           /\ ireq' = [ireq EXCEPT ![s] = g.req]
    /\ nText' = [nText EXCEPT ![s] = @ + 1]
    /\ sentAt' = [sentAt EXCEPT ![s] = Append(@, now)]
    /\ UNCHANGED <<now, history, histLock, bus, phase, sid, ridx, conn, out,
                   opc, ocur, cursor, block_list, blockLock, connLock, aborted,
                   unblocked, dropped, rstart, nTicks, nUploads>>

\* Message::Binary and the other kinds: nothing but a println.
InOther(s) ==
    /\ phase[s] = "active"
    /\ ipc[s] = "recv"
    /\ conn[s] = "open"
    /\ UNCHANGED vars

\* /block <target>: block_list.lock().await returns and the target is
\* inserted; the guard stays held for the acknowledgment.
InBlock(s) ==
    /\ ipc[s] = "block"
    /\ blockLock[s] = "free"
    /\ blockLock' = [blockLock EXCEPT ![s] = "in"]
    /\ block_list' = [block_list EXCEPT ![s] = @ \cup {ireq[s][1]}]
    /\ unblocked' = [unblocked EXCEPT ![s] = @ \ {ireq[s][1]}]
    /\ ireq' = [ireq EXCEPT ![s] = ToJson(SystemFrame(<<"blocked", ireq[s][1]>>))]
    /\ ipc' = [ipc EXCEPT ![s] = "ack"]
    /\ UNCHANGED <<now, activities, history, histLock, bus, phase, sid, ridx, conn, out,
                   opc, ocur, cursor, connLock, aborted, dropped, rstart,
                   accepted, nText, sentAt, nTicks, nUploads>>

\* /unblock that acknowledges and leaves the target in the set.
InUnblock_KeepsBlocked(s) ==
    /\ ipc[s] = "unblock"
    /\ blockLock[s] = "free"
    /\ blockLock' = [blockLock EXCEPT ![s] = "in"]
    /\ unblocked' = [unblocked EXCEPT ![s] = @ \cup {ireq[s][1]}]
    /\ ireq' = [ireq EXCEPT ![s] = ToJson(SystemFrame(<<"unblocked", ireq[s][1]>>))]
    /\ ipc' = [ipc EXCEPT ![s] = "ack"]
    /\ UNCHANGED <<now, activities, history, histLock, bus, phase, sid, ridx, conn, out,
                   opc, ocur, cursor, block_list, connLock, aborted, dropped, rstart,
                   accepted, nText, sentAt, nTicks, nUploads>>

\* /unblock <target>: the same with remove.
InUnblock(s) ==
    /\ ipc[s] = "unblock"
    /\ blockLock[s] = "free"
    /\ blockLock' = [blockLock EXCEPT ![s] = "in"]
    /\ block_list' = [block_list EXCEPT ![s] = @ \ {ireq[s][1]}]
    /\ unblocked' = [unblocked EXCEPT ![s] = @ \cup {ireq[s][1]}]
    /\ ireq' = [ireq EXCEPT ![s] = ToJson(SystemFrame(<<"unblocked", ireq[s][1]>>))]
    /\ ipc' = [ipc EXCEPT ![s] = "ack"]
    /\ UNCHANGED <<now, activities, history, histLock, bus, phase, sid, ridx, conn, out,
                   opc, ocur, cursor, connLock, aborted, dropped, rstart,
                   accepted, nText, sentAt, nTicks, nUploads>>

\* sender_arc.lock().await returns for a warning, help text or acknowledgment.
InLockSender(s) ==
    /\ ipc[s] = "ack"
    /\ connLock[s] = "free"
    /\ connLock' = [connLock EXCEPT ![s] = "in"]
    /\ ipc' = [ipc EXCEPT ![s] = "acking"]
    /\ UNCHANGED <<now, activities, history, histLock, bus, phase, sid, ridx, conn, out,
                   ireq, opc, ocur, cursor, block_list, blockLock, aborted,
                   unblocked, dropped, rstart, accepted, nText, sentAt, nTicks, nUploads>>

\* The send completes (its result is ignored), the guards in scope are
\* dropped and the loop continues.
InSend(s) ==
    /\ ipc[s] = "acking"
    /\ out' = [out EXCEPT ![s] = Written(s, "direct", Len(bus), ireq[s])]
    /\ connLock' = [connLock EXCEPT ![s] = "free"]
    /\ blockLock' = [blockLock EXCEPT ![s] = "free"]
    /\ ipc' = [ipc EXCEPT ![s] = "recv"]
    /\ ireq' = [ireq EXCEPT ![s] = <<>>]
    /\ UNCHANGED <<now, activities, history, histLock, bus, phase, sid, ridx, conn,
                   opc, ocur, cursor, block_list, aborted,
                   unblocked, dropped, rstart, accepted, nText, sentAt, nTicks, nUploads>>

\* The append without the mutex: it goes ahead while a replay holds the guard.
InAppend_NoLock(s) ==
    /\ ipc[s] = "append"
    /\ history' = Append(history, ireq[s])
    /\ ipc' = [ipc EXCEPT ![s] = "publish"]
    /\ UNCHANGED <<now, activities, histLock, bus, phase, sid, ridx, conn, out,
                   ireq, opc, ocur, cursor, block_list, blockLock, connLock, aborted,
                   unblocked, dropped, rstart, accepted, nText, sentAt, nTicks, nUploads>>

\* Public chat: history_clone.lock().await returns, the frame is pushed and
\* the guard dropped.
InAppend(s) ==
    /\ ipc[s] = "append"
    /\ histLock = "free"
    /\ history' = Append(history, ireq[s])
    /\ ipc' = [ipc EXCEPT ![s] = "publish"]
    /\ UNCHANGED <<now, activities, histLock, bus, phase, sid, ridx, conn, out,
                   ireq, opc, ocur, cursor, block_list, blockLock, connLock, aborted,
                   unblocked, dropped, rstart, accepted, nText, sentAt, nTicks, nUploads>>

\* A send that waits, as on a bounded queue, while a queue of the channel is
\* full.
Publish_WaitsForReceivers(s) ==
    /\ ipc[s] = "publish"
    /\ \A t \in Sessions :
          opc[t] \in {"recv", "filter", "lock", "write"} => Len(bus) - cursor[t] < BusCapacity
    /\ bus' = Append(bus, ireq[s])
    /\ ipc' = [ipc EXCEPT ![s] = "recv"]
    /\ ireq' = [ireq EXCEPT ![s] = <<>>]
    /\ UNCHANGED <<now, activities, history, histLock, phase, sid, ridx, conn, out,
                   opc, ocur, cursor, block_list, blockLock, connLock, aborted,
                   unblocked, dropped, rstart, accepted, nText, sentAt, nTicks, nUploads>>

\* tx_clone.send(json), for a public chat frame or a whisper.  main keeps its
\* own receiver alive, so the send never fails, and it never waits.
Publish(s) ==
    /\ ipc[s] = "publish"
    /\ bus' = Append(bus, ireq[s])
    /\ ipc' = [ipc EXCEPT ![s] = "recv"]
    /\ ireq' = [ireq EXCEPT ![s] = <<>>]
    /\ UNCHANGED <<now, activities, history, histLock, phase, sid, ridx, conn, out,
                   opc, ocur, cursor, block_list, blockLock, connLock, aborted,
                   unblocked, dropped, rstart, accepted, nText, sentAt, nTicks, nUploads>>

\* The loop's exit without the abort: the send_task is left running.
InClose_NoAbort(s) ==
    /\ phase[s] = "active"
    /\ ipc[s] = "recv"
    /\ conn[s] = "closed"
    /\ phase' = [phase EXCEPT ![s] = "closed"]
    /\ ipc' = [ipc EXCEPT ![s] = "done"]
    /\ UNCHANGED <<now, activities, history, histLock, bus, sid, ridx, conn, out,
                   ireq, opc, ocur, cursor, block_list, blockLock, connLock, aborted,
                   unblocked, dropped, rstart, accepted, nText, sentAt, nTicks, nUploads>>

\* receiver.next() yields None or an Err: the loop ends and send_task.abort()
\* is called.
InClose(s) ==
    /\ phase[s] = "active"
    /\ ipc[s] = "recv"
    /\ conn[s] = "closed"
    /\ phase' = [phase EXCEPT ![s] = "closed"]
    /\ ipc' = [ipc EXCEPT ![s] = "done"]
    /\ aborted' = [aborted EXCEPT ![s] = TRUE]
    /\ UNCHANGED <<now, activities, history, histLock, bus, sid, ridx, conn, out,
                   ireq, opc, ocur, cursor, block_list, blockLock, connLock,
                   unblocked, dropped, rstart, accepted, nText, sentAt, nTicks, nUploads>>

\* ------------------------------------------------------------------ send_task
\* The rx of a running send_task is a live receiver of the channel.
HasReceiver(s) == opc[s] \in {"recv", "filter", "lock", "write"}

\* More than the capacity behind: the oldest unread message was overwritten.
Lagged(s) == Len(bus) - cursor[s] > BusCapacity

\* A send_task that locks the sender as soon as it has a message, before it
\* looks at the block list.
OutRecv_LocksSenderFirst(s) ==
    /\ opc[s] = "recv"
    /\ ~Lagged(s)
    /\ cursor[s] < Len(bus)
    /\ connLock[s] = "free"
    /\ connLock' = [connLock EXCEPT ![s] = "out"]
    /\ cursor' = [cursor EXCEPT ![s] = @ + 1]
    /\ ocur' = [ocur EXCEPT ![s] = <<cursor[s] + 1, bus[cursor[s] + 1]>>]
    /\ opc' = [opc EXCEPT ![s] = "filter"]
    /\ UNCHANGED <<now, activities, history, histLock, bus, phase, sid, ridx, conn, out,
                   ipc, ireq, block_list, blockLock, aborted,
                   unblocked, dropped, rstart, accepted, nText, sentAt, nTicks, nUploads>>

\* rx.recv().await yields Ok(msg); a parsed frame goes to the filter.
OutRecv(s) ==
    /\ opc[s] = "recv"
    /\ ~Lagged(s)
    /\ cursor[s] < Len(bus)
    /\ cursor' = [cursor EXCEPT ![s] = @ + 1]
    /\ ocur' = [ocur EXCEPT ![s] = <<cursor[s] + 1, bus[cursor[s] + 1]>>]
    /\ opc' = [opc EXCEPT ![s] = IF FromJson(bus[cursor[s] + 1]).ok THEN "filter" ELSE "lock"]
    /\ UNCHANGED <<now, activities, history, histLock, bus, phase, sid, ridx, conn, out,
                   ipc, ireq, block_list, blockLock, connLock, aborted,
                   unblocked, dropped, rstart, accepted, nText, sentAt, nTicks, nUploads>>

\* rx.recv().await yields Err(Lagged): the while-let ends, the task finishes
\* and rx is dropped.
OutLagged(s) ==
    /\ opc[s] = "recv"
    /\ Lagged(s)
    /\ opc' = [opc EXCEPT ![s] = "ended"]
    /\ UNCHANGED <<now, activities, history, histLock, bus, phase, sid, ridx, conn, out,
                   ipc, ireq, ocur, cursor, block_list, blockLock, connLock, aborted,
                   unblocked, dropped, rstart, accepted, nText, sentAt, nTicks, nUploads>>

\* Whether the send_task discards the frame: a msg or whisper of a blocked sender.
Discards(blocked, frame) ==
    /\ frame.type \in {"msg", "whisper"}
    /\ frame.from \in blocked

\* block_list_clone.lock().await returns, the frame is matched and the guard
\* is dropped with the block it was taken in.
OutFilter(s) ==
    /\ opc[s] = "filter"
    /\ blockLock[s] = "free"
    /\ IF Discards(block_list[s], FromJson(ocur[s][2]).frame)
       THEN /\ opc' = [opc EXCEPT ![s] = "recv"]
            /\ dropped' = [dropped EXCEPT ![s] = @ \cup {ocur[s][1]}]
            /\ ocur' = [ocur EXCEPT ![s] = <<>>]
       ELSE /\ opc' = [opc EXCEPT ![s] = "lock"]
            /\ UNCHANGED <<dropped, ocur>>
    /\ UNCHANGED <<now, activities, history, histLock, bus, phase, sid, ridx, conn, out,
                   ipc, ireq, cursor, block_list, blockLock, connLock, aborted,
                   unblocked, rstart, accepted, nText, sentAt, nTicks, nUploads>>

\* sender_for_send_task.lock().await returns.
OutLockSender(s) ==
    /\ opc[s] = "lock"
    /\ connLock[s] = "free"
    /\ connLock' = [connLock EXCEPT ![s] = "out"]
    /\ opc' = [opc EXCEPT ![s] = "write"]
    /\ UNCHANGED <<now, activities, history, histLock, bus, phase, sid, ridx, conn, out,
                   ipc, ireq, ocur, cursor, block_list, blockLock, aborted,
                   unblocked, dropped, rstart, accepted, nText, sentAt, nTicks, nUploads>>

\* sender.send(Message::Text(msg)).await completes: Ok continues the loop,
\* Err breaks it.
OutSend(s) ==
    /\ opc[s] = "write"
    /\ out' = [out EXCEPT ![s] = Written(s, "bus", ocur[s][1], ocur[s][2])]
    /\ connLock' = [connLock EXCEPT ![s] = "free"]
    /\ opc' = [opc EXCEPT ![s] = IF conn[s] = "open" THEN "recv" ELSE "ended"]
    /\ ocur' = [ocur EXCEPT ![s] = <<>>]
    /\ UNCHANGED <<now, activities, history, histLock, bus, phase, sid, ridx, conn,
                   ipc, ireq, cursor, block_list, blockLock, aborted,
                   unblocked, dropped, rstart, accepted, nText, sentAt, nTicks, nUploads>>

\* The abort takes effect at an await of the send_task: its future is dropped
\* with the guard and the rx it holds.
Cancel(s) ==
    /\ aborted[s]
    /\ HasReceiver(s)
    /\ opc' = [opc EXCEPT ![s] = "cancelled"]
    /\ connLock' = [connLock EXCEPT ![s] = IF @ = "out" THEN "free" ELSE @]
    /\ ocur' = [ocur EXCEPT ![s] = <<>>]
    /\ UNCHANGED <<now, activities, history, histLock, bus, phase, sid, ridx, conn, out,
                   ipc, ireq, cursor, block_list, blockLock, aborted,
                   unblocked, dropped, rstart, accepted, nText, sentAt, nTicks, nUploads>>

\* ------------------------------------------------------------- environment
\* upload_handler, after the files are stored: one upload frame is sent on
\* the channel.
Upload(url, filename) ==
    /\ bus' = Append(bus, ToJson(UploadFrame(url, filename)))
    /\ nUploads' = nUploads + 1
    /\ UNCHANGED <<now, activities, history, histLock, nTicks>>
    /\ UNCHANGED sessionVars

\* The client closes its socket, or the connection breaks.
ClientClose(s) ==
    /\ phase[s] # "none"
    /\ conn[s] = "open"
    /\ conn' = [conn EXCEPT ![s] = "closed"]
    /\ UNCHANGED <<now, activities, history, histLock, bus, phase, sid, ridx, out,
                   ipc, ireq, opc, ocur, cursor, block_list, blockLock, connLock, aborted,
                   unblocked, dropped, rstart, accepted, nText, sentAt, nTicks, nUploads>>

\* Time passes.
Tick(d) ==
    /\ now' = now + d
    /\ nTicks' = nTicks + 1
    /\ UNCHANGED <<activities, history, histLock, bus, nUploads>>
    /\ UNCHANGED sessionVars

\* ----------------------------------------------------------- specifications
\* The chat scenario: s1 (u1) blocks and unblocks u2, s2 (u2) chats and
\* whispers, and every client stays connected.
ChatId(s) == IF s = "s1" THEN "u1" ELSE "u2"

ChatTexts(s) ==
    IF s = "s1" THEN {<<"/block", "u2">>, <<"/unblock", "u2">>}
                ELSE {<<"hi">>, <<"/w", "u1", "psst">>}

Next ==
    \/ \E s \in Sessions : Connect(s, ChatId(s))
    \/ \E s \in Sessions : ReplayLock(s)
    \/ \E s \in Sessions : ReplayStep(s)
    \/ \E s \in Sessions : SendAssign(s)
    \/ \E s \in Sessions : \E text \in ChatTexts(s) : TotalText < MaxPayloads /\ InRecv(s, text)
    \/ \E s \in Sessions : InOther(s)
    \/ \E s \in Sessions : InBlock(s)
    \/ \E s \in Sessions : InUnblock(s)
    \/ \E s \in Sessions : InLockSender(s)
    \/ \E s \in Sessions : InSend(s)
    \/ \E s \in Sessions : InAppend(s)
    \/ \E s \in Sessions : Publish(s)
    \/ \E s \in Sessions : OutRecv(s)
    \/ \E s \in Sessions : OutLagged(s)
    \/ \E s \in Sessions : OutFilter(s)
    \/ \E s \in Sessions : OutLockSender(s)
    \/ \E s \in Sessions : OutSend(s)

Spec == Init /\ [][Next]_vars

\* The abuse-guard scenario: one client sends up to GuardPayloads texts while
\* the clock advances by half a second or by just under the ban duration.  The
\* send_task, which touches neither user_activities, the history nor what is
\* on the channel, is left unscheduled.
GuardTexts == {<<"hi">>, <<"/block", "u2">>}

GuardSteps == {OneSecond \div 2, BAN_DURATION - OneSecond \div 2}

NextGuard ==
    \/ Connect("s1", "u1")
    \/ ReplayLock("s1")
    \/ SendAssign("s1")
    \/ \E text \in GuardTexts : nText["s1"] < GuardPayloads /\ InRecv("s1", text)
    \/ InBlock("s1")
    \/ InLockSender("s1")
    \/ InSend("s1")
    \/ InAppend("s1")
    \/ Publish("s1")
    \/ \E d \in GuardSteps : nTicks < MaxTicks /\ Tick(d)

SpecGuard == Init /\ [][NextGuard]_vars

\* The teardown scenario: clients may close their sockets at any moment; s1
\* asks for help, s2 chats.  An aborted send_task is cancelled at its next
\* await, which is what the weak fairness of Cancel states.
CloseTexts(s) == IF s = "s1" THEN {<<"/help">>} ELSE {<<"hi">>}

NextClose ==
    \/ \E s \in Sessions : Connect(s, ChatId(s))
    \/ \E s \in Sessions : ReplayLock(s)
    \/ \E s \in Sessions : ReplayStep(s)
    \/ \E s \in Sessions : SendAssign(s)
    \/ \E s \in Sessions : \E text \in CloseTexts(s) : TotalText < ClosePayloads /\ InRecv(s, text)
    \/ \E s \in Sessions : InLockSender(s)
    \/ \E s \in Sessions : InSend(s)
    \/ \E s \in Sessions : InAppend(s)
    \/ \E s \in Sessions : Publish(s)
    \/ \E s \in Sessions : InClose(s)
    \/ \E s \in Sessions : OutRecv(s)
    \/ \E s \in Sessions : OutFilter(s)
    \/ \E s \in Sessions : OutLockSender(s)
    \/ \E s \in Sessions : OutSend(s)
    \/ \E s \in Sessions : Cancel(s)
    \/ \E s \in Sessions : ClientClose(s)

SpecClose == Init /\ [][NextClose]_vars /\ \A s \in Sessions : WF_vars(Cancel(s))

\* The join scenario: s2 chats and whispers while s1 connects before, between
\* or after its texts.
ReplayTexts == {<<"hi">>, <<"yo">>, <<"/w", "u1", "psst">>}

NextReplay ==
    \/ \E s \in Sessions : Connect(s, ChatId(s))
    \/ \E s \in Sessions : ReplayLock(s)
    \/ \E s \in Sessions : ReplayStep(s)
    \/ \E s \in Sessions : SendAssign(s)
    \/ \E text \in ReplayTexts : TotalText < ReplayPayloads /\ InRecv("s2", text)
    \/ \E s \in Sessions : InAppend(s)
    \/ \E s \in Sessions : Publish(s)
    \/ \E s \in Sessions : OutRecv(s)
    \/ \E s \in Sessions : OutLagged(s)
    \/ \E s \in Sessions : OutFilter(s)
    \/ \E s \in Sessions : OutLockSender(s)
    \/ \E s \in Sessions : OutSend(s)

SpecReplay == Init /\ [][NextReplay]_vars

\* The upload scenario: s2 chats and files are uploaded while s1 connects
\* before, between or after these.
NextUpload ==
    \/ \E s \in Sessions : Connect(s, ChatId(s))
    \/ \E s \in Sessions : ReplayLock(s)
    \/ \E s \in Sessions : ReplayStep(s)
    \/ \E s \in Sessions : SendAssign(s)
    \/ TotalText < UploadPayloads /\ InRecv("s2", <<"hi">>)
    \/ \E s \in Sessions : InAppend(s)
    \/ \E s \in Sessions : Publish(s)
    \/ \E s \in Sessions : OutRecv(s)
    \/ \E s \in Sessions : OutLagged(s)
    \/ \E s \in Sessions : OutFilter(s)
    \/ \E s \in Sessions : OutLockSender(s)
    \/ \E s \in Sessions : OutSend(s)
    \/ nUploads < MaxUploads /\ Upload("/uploads/1_2.png", "a.png")

SpecUpload == Init /\ [][NextUpload]_vars

\* The flooding scenario: s1 (u1) sends public chat texts without a pause
\* until check_spam rejects one, while s2 (u2) listens.
NextNotice ==
    \/ \E s \in Sessions : Connect(s, ChatId(s))
    \/ \E s \in Sessions : ReplayLock(s)
    \/ \E s \in Sessions : ReplayStep(s)
    \/ \E s \in Sessions : SendAssign(s)
    \/ nText["s1"] < NoticePayloads /\ InRecv("s1", <<"hi">>)
    \/ \E s \in Sessions : InLockSender(s)
    \/ \E s \in Sessions : InSend(s)
    \/ \E s \in Sessions : InAppend(s)
    \/ \E s \in Sessions : Publish(s)
    \/ \E s \in Sessions : OutRecv(s)
    \/ \E s \in Sessions : OutLagged(s)
    \/ \E s \in Sessions : OutFilter(s)
    \/ \E s \in Sessions : OutLockSender(s)
    \/ \E s \in Sessions : OutSend(s)

SpecNotice == Init /\ [][NextNotice]_vars

\* The guard scenario: s1 (u1) blocks and unblocks u2 while s2 (u2) chats, so
\* that every mutex is taken by every task that uses it.
LockTexts(s) ==
    IF s = "s1" THEN {<<"/block", "u2">>, <<"/unblock", "u2">>} ELSE {<<"hi">>}

NextLocks ==
    \/ \E s \in Sessions : Connect(s, ChatId(s))
    \/ \E s \in Sessions : ReplayLock(s)
    \/ \E s \in Sessions : ReplayStep(s)
    \/ \E s \in Sessions : SendAssign(s)
    \/ \E s \in Sessions : \E text \in LockTexts(s) : TotalText < LockPayloads /\ InRecv(s, text)
    \/ \E s \in Sessions : InBlock(s)
    \/ \E s \in Sessions : InUnblock(s)
    \/ \E s \in Sessions : InLockSender(s)
    \/ \E s \in Sessions : InSend(s)
    \/ \E s \in Sessions : InAppend(s)
    \/ \E s \in Sessions : Publish(s)
    \/ \E s \in Sessions : OutRecv(s)
    \/ \E s \in Sessions : OutLagged(s)
    \/ \E s \in Sessions : OutFilter(s)
    \/ \E s \in Sessions : OutLockSender(s)
    \/ \E s \in Sessions : OutSend(s)

SpecLocks == Init /\ [][NextLocks]_vars

\* The identifier scenario: gen_id draws each connection's id at random, here
\* from two values instead of the 65536 of a u16, and both clients whisper
\* while the clock may advance by a second.  The send_tasks, which never
\* touch user_activities, are left unscheduled.
Ids == {"u1", "u2"}

NextIds ==
    \/ \E s \in Sessions : \E id \in Ids : Connect(s, id)
    \/ \E s \in Sessions : ReplayLock(s)
    \/ \E s \in Sessions : SendAssign(s)
    \/ \E s \in Sessions : TotalText < IdPayloads /\ InRecv(s, <<"/w", "u1", "psst">>)
    \/ \E s \in Sessions : InLockSender(s)
    \/ \E s \in Sessions : InSend(s)
    \/ \E s \in Sessions : Publish(s)
    \/ nTicks < MaxTicks /\ Tick(OneSecond)

SpecIds == Init /\ [][NextIds]_vars

\* The two-sender scenario: s1 (u1) and s2 (u2) both send public chat.
RaceTexts(s) == IF s = "s1" THEN {<<"hi">>} ELSE {<<"yo">>}

NextRace ==
    \/ \E s \in Sessions : Connect(s, ChatId(s))
    \/ \E s \in Sessions : ReplayLock(s)
    \/ \E s \in Sessions : ReplayStep(s)
    \/ \E s \in Sessions : SendAssign(s)
    \/ \E s \in Sessions : \E text \in RaceTexts(s) : TotalText < RacePayloads /\ InRecv(s, text)
    \/ \E s \in Sessions : InAppend(s)
    \/ \E s \in Sessions : Publish(s)
    \/ \E s \in Sessions : OutRecv(s)
    \/ \E s \in Sessions : OutFilter(s)
    \/ \E s \in Sessions : OutLockSender(s)
    \/ \E s \in Sessions : OutSend(s)

SpecRace == Init /\ [][NextRace]_vars

\* ------------------------------------------------------------------- claims
LastOut(s) == out[s][Len(out[s])]

IsWarn(json) == json[1] = "warn"

\* C1: a text that check_spam rejects causes no history append, no publish
\* and no block-list change while the inbound loop handles it; all it writes
\* to the connection is the rejection notice.
C1_RejectedTextHasNoEffect ==
    [][\A s \in Sessions :
          (ipc'[s] # ipc[s] /\ ~accepted'[s]) =>
              /\ history' = history
              /\ bus' = bus
              /\ block_list' = block_list
              /\ out'[s] # out[s] =>
                    /\ Len(out'[s]) = Len(out[s]) + 1
                    /\ IsWarn(out'[s][Len(out'[s])].json)]_vars

\* C1 witness: a rejection notice was written after texts were accepted and
\* stored.
C1_Witness ==
    \E s \in Sessions :
        /\ ~accepted[s]
        /\ ipc[s] = "recv"
        /\ out[s] # <<>>
        /\ IsWarn(LastOut(s).json)
        /\ Len(history) = MESSAGE_COUNT_LIMIT
        /\ Len(bus) = MESSAGE_COUNT_LIMIT

\* C2: from a fresh record and with every gap under a second (the rolling
\* count equals the number of texts sent), texts 1-5 leave the sender clear,
\* text 6 leaves it warned once and not banned, text 7 leaves it banned.
C2_WarnedBeforeBanned ==
    \A s \in Sessions :
        (sid[s] \in DOMAIN activities /\ activities[sid[s]].message_count = nText[s]) =>
            LET a == activities[sid[s]]
            IN  /\ nText[s] <= 5 => (~a.is_banned /\ a.warnings = 0)
                /\ nText[s] = 6 => (~a.is_banned /\ a.warnings = 1)
                /\ nText[s] = 7 => a.is_banned

\* C3: a text of a sender banned at t0 (the time of its last counted text)
\* that comes before t0 + 300 s is rejected and leaves the record as it was;
\* one that comes at or after t0 + 300 s is accepted and leaves the record
\* unbanned with no warning and a rolling count of 1.
C3_BanHoldsThenResets ==
    [][\A s \in Sessions :
          (nText'[s] # nText[s] /\ sid[s] \in DOMAIN activities
                                /\ activities[sid[s]].is_banned) =>
              LET a == activities[sid[s]]
                  b == activities'[sid[s]]
              IN  IF now < a.last_message_time + 300 * 1000
                  THEN /\ b = a
                       /\ ipc'[s] = "ack"
                       /\ IsWarn(ireq'[s])
                  ELSE /\ b = [message_count |-> 1, last_message_time |-> now,
                               warnings |-> 0, is_banned |-> FALSE, ban_until |-> {}]
                       /\ ~(ipc'[s] = "ack" /\ IsWarn(ireq'[s]))]_vars

\* C3 witness: a sender was told the remaining ban time, and after the ban
\* ran out its text was accepted and the record reset.
C3_Witness ==
    \E s \in Sessions :
        /\ sid[s] \in DOMAIN activities
        /\ ~activities[sid[s]].is_banned
        /\ activities[sid[s]].message_count = 1
        /\ activities[sid[s]].last_message_time >= 300 * 1000
        /\ accepted[s]
        /\ \E i \in DOMAIN out[s] :
              /\ IsWarn(out[s][i].json)
              /\ out[s][i].json[2][1] = "ban_remaining"

\* A msg or whisper frame of sender x, as the send_task's match sees it.
IsFrom(json, x) ==
    /\ FromJson(json).ok
    /\ FromJson(json).frame.type \in {"msg", "whisper"}
    /\ FromJson(json).frame.from = x

\* The acknowledgment of /block x or /unblock x on a connection.
IsAck(e, kind, x) ==
    /\ e.via = "direct"
    /\ e.json[1] = "system"
    /\ e.json[2] = <<kind, x>>

Senders == {"u1", "u2"}

\* The entry at j is a forwarded frame of x, written after the
\* acknowledgment of /block x at i with no /unblock x acknowledged between.
ForwardedWhileBlocked(s, i, j, x) ==
    /\ i < j
    /\ IsAck(out[s][i], "blocked", x)
    /\ out[s][j].via = "bus"
    /\ IsFrom(out[s][j].json, x)
    /\ \A k \in i..j : ~IsAck(out[s][k], "unblocked", x)

\* C4 as claimed: after the acknowledgment of /block X no msg or whisper
\* frame with from = X is written to the connection while X stays blocked.
C4_NothingWrittenAfterBlock ==
    \A s \in Sessions, x \in Senders :
        \A i, j \in DOMAIN out[s] : ~ForwardedWhileBlocked(s, i, j, x)

\* What the code keeps of C4: after the acknowledgment of /block X no msg or
\* whisper frame of X that is published afterwards is written while X stays
\* blocked (what is still written was on the channel before the
\* acknowledgment), and a session that never blocked X discards no frame of X.
C4_NothingPublishedAfterBlockIsWritten ==
    \A s \in Sessions, x \in Senders :
        /\ \A i, j \in DOMAIN out[s] :
              ForwardedWhileBlocked(s, i, j, x) => out[s][j].pos <= out[s][i].pos
        /\ x \notin block_list[s] \cup unblocked[s] =>
              \A p \in dropped[s] : ~IsFrom(bus[p], x)

\* A state in which C4's case happened: s blocked x, a frame of x published
\* after the acknowledgment was discarded for s and written to the other
\* connection.
C4_Witness ==
    \E s \in Sessions, t \in Sessions, x \in Senders :
        /\ s # t
        /\ \E i \in DOMAIN out[s], p \in dropped[s], j \in DOMAIN out[t] :
              /\ IsAck(out[s][i], "blocked", x)
              /\ p > out[s][i].pos
              /\ IsFrom(bus[p], x)
              /\ out[t][j].via = "bus"
              /\ out[t][j].pos = p

\* C5: once /unblock X is processed (and until X is blocked again) the
\* send_task discards no msg or whisper frame of X that it receives: the
\* frame leaves the filter on its way to the connection.
C5_UnblockedIsForwarded ==
    [][\A s \in Sessions :
          (opc[s] = "filter" /\ opc'[s] # "filter"
              /\ \E x \in unblocked[s] : IsFrom(ocur[s][2], x)) =>
              /\ opc'[s] = "lock"
              /\ ocur'[s] = ocur[s]
              /\ dropped'[s] = dropped[s]]_vars

\* C5 witness: /block X and then /unblock X were acknowledged, and a frame
\* of X published after that was written to the connection.
C5_Witness ==
    \E s \in Sessions, x \in Senders :
        \E i, j, k \in DOMAIN out[s] :
            /\ i < j /\ j < k
            /\ IsAck(out[s][i], "blocked", x)
            /\ IsAck(out[s][j], "unblocked", x)
            /\ out[s][k].via = "bus"
            /\ IsFrom(out[s][k].json, x)
            /\ out[s][k].pos > out[s][j].pos

IsReplay(e) == e.via = "replay"

\* The frames a connection was sent as replay, in the order sent.
Replayed(s) ==
    LET r == SelectSeq(out[s], IsReplay)
    IN  [i \in 1..Len(r) |-> r[i].json]

\* C6: the replay a connecting session is sent is the history as it was when
\* the replay began (its first rstart entries, in order, each once); while
\* the replay runs it is the part before ridx.
C6_ReplayIsHistoryAtStart ==
    \A s \in Sessions :
        conn[s] = "open" =>
            /\ phase[s] \in {"assign", "active", "closed"} =>
                  Replayed(s) = SubSeq(history, 1, rstart[s])
            /\ phase[s] = "replay" =>
                  /\ ridx[s] <= rstart[s]
                  /\ Replayed(s) = SubSeq(history, 1, ridx[s] - 1)

\* C6 witness: a session replayed two different frames while a third frame
\* was appended after its replay began.
C6_Witness ==
    \E s \in Sessions :
        /\ phase[s] = "active"
        /\ rstart[s] = 2
        /\ Len(Replayed(s)) = 2
        /\ Replayed(s)[1] # Replayed(s)[2]
        /\ Len(history) = 3

\* C7: the history holds no whisper frame, and none is sent as replay.
C7_NoWhisperInHistory ==
    /\ \A i \in DOMAIN history : FromJson(history[i]).frame.type # "whisper"
    /\ \A s \in Sessions : \A i \in DOMAIN out[s] :
          out[s][i].via = "replay" => out[s][i].json[1] # "whisper"

\* C7 witness: a whisper is on the channel and a session that subscribed
\* after it was published got a replay without it.
C7_Witness ==
    \E s \in Sessions, p \in DOMAIN bus :
        /\ bus[p][1] = "whisper"
        /\ phase[s] = "active"
        /\ cursor[s] >= p
        /\ rstart[s] >= 1
        /\ \E i \in DOMAIN out[s] : out[s][i].json[1] = "assign" /\ out[s][i].pos >= p

\* C8: a send on the channel never waits: whatever the receivers have read,
\* a session about to publish can; a receiver more than the capacity behind
\* gets Lagged and ends, any other one gets the next frame.
C8_PublishNeverBlocks ==
    \A s \in Sessions :
        /\ ipc[s] = "publish" => ENABLED Publish(s)
        /\ (opc[s] = "recv" /\ cursor[s] < Len(bus)) =>
              IF Len(bus) - cursor[s] > BusCapacity
              THEN ENABLED OutLagged(s) /\ ~ENABLED OutRecv(s)
              ELSE ENABLED OutRecv(s) /\ ~ENABLED OutLagged(s)

\* C8 witness: one receiver is more than the capacity behind while the
\* other session was written the newest frame on the channel.
C8_Witness ==
    \E s \in Sessions, t \in Sessions :
        /\ s # t
        /\ opc[s] = "recv"
        /\ Len(bus) - cursor[s] > BusCapacity
        /\ \E j \in DOMAIN out[t] : out[t][j].via = "bus" /\ out[t][j].pos = Len(bus)

\* C9 as claimed: a session whose send_task has ended (a failed write or a
\* lagged receiver) takes no further text from its client.
C9_NoTextAfterOutboundEnds ==
    [][\A s \in Sessions : opc[s] = "ended" => nText'[s] = nText[s]]_vars

\* C10: once the inbound loop has exited, the send_task is eventually gone
\* (its receiver released), and from then on it takes no step and nothing
\* more is written to the connection.
C10_ClosedReleasesReceiver ==
    /\ \A s \in Sessions : (phase[s] = "closed") ~> ~HasReceiver(s)
    /\ [][\A s \in Sessions :
             (phase[s] = "closed" /\ ~HasReceiver(s)) =>
                 /\ opc'[s] = opc[s]
                 /\ cursor'[s] = cursor[s]
                 /\ out'[s] = out[s]]_vars

\* C10 witness: a session closed while its send_task had a frame in hand
\* (received, neither written nor discarded), and the task was cancelled.
C10_Witness ==
    \E s \in Sessions :
        /\ phase[s] = "closed"
        /\ opc[s] = "cancelled"
        /\ cursor[s] = 1
        /\ dropped[s] = {}
        /\ Len(out[s]) = 1
        /\ out[s][1].json[1] = "assign"
        /\ out[s][1].pos = 0

\* C11: a rejection notice of check_spam is never on the channel and never in
\* the history, and it is written to a connection only by that connection's
\* own inbound loop, as its answer to the text that was rejected: no send_task
\* forwards one, no replay holds one, and no other connection changes.
C11_NoticeOnlyToOffender ==
    /\ [](/\ \A p \in DOMAIN bus : ~IsWarn(bus[p])
          /\ \A k \in DOMAIN history : ~IsWarn(history[k])
          /\ \A s \in Sessions : \A i \in DOMAIN out[s] :
                IsWarn(out[s][i].json) => out[s][i].via = "direct")
    /\ [][\A s \in Sessions :
             (Len(out'[s]) > Len(out[s]) /\ IsWarn(out'[s][Len(out'[s])].json)) =>
                 /\ ipc[s] = "acking"
                 /\ ~accepted[s]
                 /\ out'[s] = Append(out[s], [via |-> "direct", pos |-> Len(bus),
                                              json |-> ireq[s]])
                 /\ \A t \in Sessions \ {s} : out'[t] = out[t]]_vars

\* C11 witness: the flooding session was written a notice while the other
\* session, which was forwarded the flooder's frames, got none.
C11_Witness ==
    \E s \in Sessions, t \in Sessions :
        /\ s # t
        /\ out[s] # <<>>
        /\ IsWarn(LastOut(s).json)
        /\ \E j \in DOMAIN out[t] : out[t][j].via = "bus" /\ IsFrom(out[t][j].json, sid[s])
        /\ \A j \in DOMAIN out[t] : ~IsWarn(out[t][j].json)
        /\ Len(bus) = MESSAGE_COUNT_LIMIT

IsAssign(e) == e.via = "direct" /\ e.json[1] = "assign"

\* C12: on every connection the replayed frames come first, then the one
\* assign frame, then acknowledgments, notices and forwarded frames only; a
\* send_task runs only once the assign frame was sent, and what it forwards
\* was published after that.
C12_ReplayThenAssignThenLive ==
    \A s \in Sessions :
        /\ \A i, j \in DOMAIN out[s] :
              /\ (i < j /\ out[s][j].via = "replay") => out[s][i].via = "replay"
              /\ (IsAssign(out[s][i]) /\ IsAssign(out[s][j])) => i = j
              /\ (IsAssign(out[s][i]) /\ out[s][j].via = "bus") =>
                    (i < j /\ out[s][i].pos < out[s][j].pos)
        /\ \A j \in DOMAIN out[s] :
              (out[s][j].via # "replay" /\ ~IsAssign(out[s][j])) =>
                  \E i \in 1..(j - 1) : IsAssign(out[s][i])
        /\ (opc[s] # "idle" \/ ipc[s] # "idle") =>
              /\ phase[s] \in {"active", "closed"}
              /\ conn[s] = "open" => \E i \in DOMAIN out[s] : IsAssign(out[s][i])

\* C12 witness: a connection was sent a replayed frame, the assign frame, a
\* forwarded frame and an acknowledgment.
C12_Witness ==
    \E s \in Sessions :
        \E i, j, k, l \in DOMAIN out[s] :
            /\ i < j
            /\ out[s][i].via = "replay"
            /\ IsAssign(out[s][j])
            /\ out[s][k].via = "bus"
            /\ IsAck(out[s][l], "blocked", "u2")

\* The tasks: a connection's handle_socket ("in": the replay, then the inbound
\* loop) and its send_task ("out").
Tasks == Sessions \X {"in", "out"}

\* The mutex a task is waiting for at its .lock().await, if any.  The
\* user_activities write lock is taken and released inside check_spam, which
\* awaits nothing else and takes no other guard: no task holds it while it
\* waits.
Wanted(task) ==
    LET s == task[1]
    IN  IF task[2] = "in"
        THEN IF phase[s] = "connecting" \/ ipc[s] = "append" THEN {<<"history">>}
             ELSE IF ipc[s] \in {"block", "unblock"} THEN {<<"block_list", s>>}
             ELSE IF ipc[s] = "ack" THEN {<<"sender", s>>}
             ELSE {}
        ELSE IF opc[s] = "filter" THEN {<<"block_list", s>>}
             ELSE IF opc[s] = "lock" THEN {<<"sender", s>>}
             ELSE {}

\* The mutexes a task holds.
Held(task) ==
    LET s == task[1]
    IN  {<<"history">> : x \in {1} \cap (IF task[2] = "in" /\ histLock = s THEN {1} ELSE {})}
        \cup {<<"block_list", s>> : x \in {1} \cap (IF blockLock[s] = task[2] THEN {1} ELSE {})}
        \cup {<<"sender", s>> : x \in {1} \cap (IF connLock[s] = task[2] THEN {1} ELSE {})}

\* The tasks that hold what the task waits for.
WaitsOn(task) == {u \in Tasks : Wanted(task) \cap Held(u) # {}}

RECURSIVE WaitsOnWithin(_, _)
WaitsOnWithin(task, n) ==
    IF n = 0 THEN {}
    ELSE LET r == WaitsOnWithin(task, n - 1)
         IN  WaitsOn(task) \cup r \cup UNION {WaitsOn(u) : u \in r}

\* Every task the task waits on, directly or through other waiting tasks.
WaitsOnTransitively(task) == WaitsOnWithin(task, Cardinality(Tasks))

\* C20: no task waits, directly or through a chain of waiting tasks, for a
\* guard it holds itself, and every task that waits waits (at the end of the
\* chain) on a task that no held guard keeps waiting: one inside a connection
\* write or about to take a free guard.
C20_NoCycleOfGuards ==
    \A task \in Tasks :
        /\ task \notin WaitsOnTransitively(task)
        /\ WaitsOn(task) # {} =>
              \E u \in WaitsOnTransitively(task) : WaitsOn(u) = {}

\* C20 witness: an inbound loop that holds its block list waits for the
\* sender, which its send_task holds for a write, while the other session
\* waits for the history mutex.
C20_Witness ==
    \E s \in Sessions, t \in Sessions :
        /\ s # t
        /\ Held(<<s, "in">>) = {<<"block_list", s>>}
        /\ Wanted(<<s, "in">>) = {<<"sender", s>>}
        /\ Held(<<s, "out">>) = {<<"sender", s>>}
        /\ WaitsOn(<<s, "in">>) = {<<s, "out">>}
        /\ Wanted(<<t, "in">>) = {<<"history">>}

\* C13 as claimed: the history mutex is never held while a write to a
\* connection is pending, so an accepted public chat frame that is waiting
\* to be appended can always be appended, whatever a connecting client does.
C13_HistoryGuardNotHeldAcrossWrite ==
    /\ \A s \in Sessions : phase[s] = "replay" => histLock # s
    /\ \A t \in Sessions : ipc[t] = "append" => ENABLED InAppend(t)

\* A frame that is broadcast to everyone: public chat or an upload.
IsPublic(json) == json[1] \in {"msg", "upload"}

\* C14 as claimed: every public chat frame and every upload frame on the
\* channel was appended to the history before it was published.
C14_PublishedPublicFrameIsInHistory ==
    \A p \in DOMAIN bus :
        IsPublic(bus[p]) => \E k \in DOMAIN history : history[k] = bus[p]

\* The payloads a sender sent in the second that ends at t.
InWindow(times, t) ==
    Cardinality({i \in DOMAIN times : times[i] <= t /\ t - times[i] < OneSecond})

\* The length of the run that ends with the last payload: the payloads each
\* sent less than a second after the one before it.
RECURSIVE RunLength(_)
RunLength(times) ==
    IF Len(times) <= 1 THEN Len(times)
    ELSE IF times[Len(times)] - times[Len(times) - 1] < OneSecond
         THEN 1 + RunLength(SubSeq(times, 1, Len(times) - 1))
         ELSE 1

\* C16 as claimed: the rolling count of a sender never exceeds the number of
\* payloads it sent in the second that ends at its last counted payload.
C16_CountWithinTrailingSecond ==
    \A s \in Sessions :
        sid[s] \in DOMAIN activities =>
            activities[sid[s]].message_count <=
                InWindow(sentAt[s], activities[sid[s]].last_message_time)

\* C16, amended: the rolling count of a sender that is not banned never
\* exceeds the length of its current run of payloads, each sent less than a
\* second after the one before, and the rate limiter rejects a payload only
\* if that run is longer than 5.
C16_CountWithinCurrentRun ==
    \A s \in Sessions :
        sid[s] \in DOMAIN activities =>
            LET a == activities[sid[s]]
            IN  /\ ~a.is_banned => a.message_count <= RunLength(sentAt[s])
                /\ (~accepted[s] /\ a.last_message_time = sentAt[s][Len(sentAt[s])]) =>
                      RunLength(sentAt[s]) > MESSAGE_COUNT_LIMIT

\* C16 witness: a sender whose six payloads span a second or more, with every
\* gap under a second, had the sixth rejected by the rate limiter.
C16_Witness ==
    \E s \in Sessions :
        /\ sid[s] \in DOMAIN activities
        /\ ~accepted[s]
        /\ Len(sentAt[s]) = MESSAGE_COUNT_LIMIT + 1
        /\ sentAt[s][Len(sentAt[s])] - sentAt[s][1] >= OneSecond
        /\ RunLength(sentAt[s]) = MESSAGE_COUNT_LIMIT + 1
        /\ activities[sid[s]].last_message_time = sentAt[s][Len(sentAt[s])]

\* Two sequences of times, each in ascending order, merged into one.
RECURSIVE Merge(_, _)
Merge(a, b) ==
    IF a = <<>> THEN b
    ELSE IF b = <<>> THEN a
    ELSE IF a[1] <= b[1] THEN <<a[1]>> \o Merge(Tail(a), b)
    ELSE <<b[1]>> \o Merge(a, Tail(b))

RECURSIVE MergeAll(_)
MergeAll(S) ==
    IF S = {} THEN <<>>
    ELSE LET x == CHOOSE y \in S : TRUE IN Merge(sentAt[x], MergeAll(S \ {x}))

\* The times of the payloads sent under identifier u, by whichever connection.
TimesOf(u) == MergeAll({s \in Sessions : sid[s] = u})

\* What check_spam returns for the last of the payloads sent at these times
\* by a sender that is alone on the server.
RECURSIVE Alone(_)
Alone(times) ==
    LET n == Len(times)
    IN  IF n = 1 THEN CheckSpam(FreshActivity(times[1]), times[1])
        ELSE CheckSpam(Alone(SubSeq(times, 1, n - 1)).activity, times[n])

Live(s) == phase[s] \notin {"none", "closed"}

\* C15 as claimed: no two live sessions have the same identifier, and the
\* record a session is judged by is the one its own payload times alone
\* produce.
C15_IsolatedPerSession ==
    \A s \in Sessions :
        /\ \A t \in Sessions \ {s} : (Live(s) /\ Live(t)) => sid[s] # sid[t]
        /\ nText[s] > 0 => activities[sid[s]] = Alone(sentAt[s]).activity

\* C15, amended: the verdict on a payload, and the record it leaves, are
\* those a sender alone on the server would get for the payload times of
\* its identifier (its own and those of any session gen_id gave the same
\* identifier); the records of other identifiers stay as they are.
C15_IsolatedPerIdentifier ==
    [][\A s \in Sessions :
          nText'[s] # nText[s] =>
              LET r == Alone(Append(TimesOf(sid[s]), now))
              IN  /\ accepted'[s] = r.ok
                  /\ activities'[sid[s]] = r.activity
                  /\ \A v \in DOMAIN activities \ {sid[s]} :
                        activities'[v] = activities[v]]_vars

\* C15 witness: two live sessions were given the same identifier, each sent
\* three payloads in the same second, and the sixth of them was rejected.
C15_Witness ==
    \E s \in Sessions, t \in Sessions :
        /\ s # t
        /\ Live(s) /\ Live(t)
        /\ sid[s] = sid[t]
        /\ nText[s] = 3
        /\ nText[t] = 3
        /\ sentAt[s] = sentAt[t]
        /\ ~accepted[s]
        /\ accepted[t]
        /\ activities[sid[s]].message_count = MESSAGE_COUNT_LIMIT + 1

IsMsg(json) == json[1] = "msg"

\* C17 as claimed: the public chat frames on the channel are, in the order
\* they were published, the first entries of the history: of two frames the
\* one that is earlier in the history is published first.
C17_HistoryOrderIsBusOrder ==
    LET b == SelectSeq(bus, IsMsg)
    IN  /\ Len(b) <= Len(history)
        /\ b = SubSeq(history, 1, Len(b))

\* The number of public chat frames among the first p on the channel.  While
\* one session alone sends public chat, the frame at p is the entry of the
\* history with that index.
MsgRank(p) == Len(SelectSeq(SubSeq(bus, 1, p), IsMsg))

\* The place on the channel of the k-th public chat frame, 0 before it is
\* published.
PlaceOfMsg(k) ==
    IF \E p \in DOMAIN bus : IsMsg(bus[p]) /\ MsgRank(p) = k
    THEN CHOOSE p \in DOMAIN bus : IsMsg(bus[p]) /\ MsgRank(p) = k
    ELSE 0

\* C18 as claimed: a public chat frame that was replayed to a connection is
\* not written to it again by its send_task.
C18_ReplayedIsNotForwarded ==
    \A s \in Sessions : \A i, j \in DOMAIN out[s] :
        (out[s][i].via = "replay" /\ out[s][j].via = "bus" /\ IsMsg(out[s][j].json)) =>
            MsgRank(out[s][j].pos) # out[s][i].pos

\* What the channel held when the session subscribed: the assign frame is
\* written and the subscription taken in one step.
SubscribedAt(s) == out[s][CHOOSE i \in DOMAIN out[s] : IsAssign(out[s][i])].pos

\* C19 as claimed: every public chat frame in the history is, for an active
\* session, part of its replay, or not published yet, or published after
\* the session subscribed.
C19_ReplayedOrReceived ==
    \A s \in Sessions :
        (phase[s] = "active" /\ conn[s] = "open") =>
            \A k \in DOMAIN history :
                \/ k <= rstart[s]
                \/ PlaceOfMsg(k) = 0
                \/ PlaceOfMsg(k) > SubscribedAt(s)

====
